---- MODULE Spec2Model ----
(***************************************************************************)
(* NearbyPlanes: a Home Assistant integration that polls ADSB.fi for the   *)
(* aircraft near a location entity and presents the cached result as a     *)
(* count sensor (sensor.py) and as per-aircraft map markers                *)
(* (geo_location.py); config_flow.py validates the location entity.        *)
(*                                                                         *)
(* Python and JSON values are tagged records, so that None, strings,       *)
(* numbers, booleans, lists and dicts stay distinct values:                *)
(*   [tag |-> "null"], [tag |-> "str", s |-> <<chars>>], ...               *)
(* A string is the sequence of its code points: <<70, 32>> is 'F '.        *)
(***************************************************************************)
EXTENDS Integers, Sequences, FiniteSets, TLC

VARIABLES
    states,     \* hass.states: entity id -> State or NoState
    entry,      \* the config entry: its data and its options
    config,     \* per coordinator, the entity id and distance it was built with
    pending,    \* per coordinator, the GET its running cycle is waiting for
    reading,    \* per coordinator: the head of the answer has arrived and the
                \* cycle waits at `await resp.json()` for the body
    data,       \* coordinator.data, per PlanesCoordinator instance
    fetch,      \* per coordinator, what its last finished cycle requested and received
    ok,         \* coordinator.last_update_success
    notified,   \* per coordinator: its last finished cycle called the listeners
    phase,      \* per platform: "new" before async_setup_entry has returned,
                \* "ready" after, "failed" when it raised
    entities,   \* geo_location.py: the closure list `entities` (hex_id of each)
    added,      \* per platform, the entities async_add_entities was handed, in
                \* order, since the platform was loaded
    flowErrors, \* self._errors of the config flow and of the options flow
    flowResult, \* what the last flow step returned
    created,    \* the entries the flows created (async_create_entry)
    normIn,     \* a raw aircraft record handed to normalize_plane
    normOut     \* the record normalize_plane returned for it

vars == <<states, entry, config, pending, reading, data, fetch, ok, notified,
          phase, entities, added, flowErrors, flowResult, created, normIn,
          normOut>>

coordVars == <<entry, config, pending, reading, data, fetch, ok, notified,
               phase, entities, added>>
flowVars  == <<flowErrors, flowResult, created>>
normVars  == <<normIn, normOut>>

---------------------------------------------------------------------------
(* Bounds of the model *)

\* longest 'ac' array a response carries
MaxPlanes == 2
\* longest 'ac' array where both coordinators run side by side
MaxShared == 1
\* longest raw 'flight' string handed to normalize_plane
MaxFlightLen == 3

---------------------------------------------------------------------------
(* Python / JSON values *)

None == [tag |-> "null"]
JStr(s) == [tag |-> "str", s |-> s]
JNum(n) == [tag |-> "num", n |-> n]
JBool(b) == [tag |-> "bool", b |-> b]
JList(l) == [tag |-> "list", l |-> l]
JObj(o) == [tag |-> "obj", o |-> o]

\* Python truthiness (`not x`, `x or y`)
Truthy(v) ==
    CASE v.tag = "null" -> FALSE
      [] v.tag = "str"  -> v.s # <<>>
      [] v.tag = "num"  -> v.n # 0
      [] v.tag = "bool" -> v.b
      [] v.tag = "list" -> v.l # <<>>
      [] v.tag = "obj"  -> DOMAIN v.o # {}

\* `a or b`
Or(a, b) == IF Truthy(a) THEN a ELSE b

\* dict.get(k) and dict.get(k, d); d.o is the dict's key -> value function
Get(d, k) == IF k \in DOMAIN d.o THEN d.o[k] ELSE None
GetD(d, k, dflt) == IF k \in DOMAIN d.o THEN d.o[k] ELSE dflt

\* Python's == on these values: True == 1 and False == 0, lists and dicts
\* are equal when their elements are
NumOf(v) == IF v.tag = "bool" THEN (IF v.b THEN 1 ELSE 0) ELSE v.n

RECURSIVE PyEq(_, _)
PyEq(a, b) ==
    IF a.tag \in {"num", "bool"} /\ b.tag \in {"num", "bool"}
    THEN NumOf(a) = NumOf(b)
    ELSE IF a.tag # b.tag THEN FALSE
    ELSE CASE a.tag = "list" ->
                /\ Len(a.l) = Len(b.l)
                /\ \A i \in 1..Len(a.l) : PyEq(a.l[i], b.l[i])
           [] a.tag = "obj" ->
                /\ DOMAIN a.o = DOMAIN b.o
                /\ \A k \in DOMAIN a.o : PyEq(a.o[k], b.o[k])
           [] OTHER -> a = b

\* hash(v) raises TypeError for a list and for a dict
Hashable(v) == v.tag \notin {"list", "obj"}

\* `v in s` for a Python set s of hashable values
PyIn(v, s) == \E w \in s : PyEq(v, w)

\* str.strip() removes the characters str.isspace() accepts from both ends:
\* \t \n \v \f \r, U+001C..U+001F, space, U+0085, U+00A0, U+1680,
\* U+2000..U+200A, U+2028, U+2029, U+202F, U+205F, U+3000
IsSpace(c) ==
    c \in (9..13) \cup (28..32) \cup {133, 160, 5760} \cup (8192..8202)
            \cup {8232, 8233, 8239, 8287, 12288}

RECURSIVE LStrip(_)
LStrip(s) == IF s # <<>> /\ IsSpace(Head(s)) THEN LStrip(Tail(s)) ELSE s

RECURSIVE RStrip(_)
RStrip(s) ==
    IF s # <<>> /\ IsSpace(s[Len(s)]) THEN RStrip(SubSeq(s, 1, Len(s) - 1)) ELSE s

Strip(s) == RStrip(LStrip(s))

Ground == <<103, 114, 111, 117, 110, 100>>

---------------------------------------------------------------------------
(* sensor.py: normalize_plane *)

\* The dict normalize_plane returns for raw record p, given the value it
\* computed for `flight` and for "on_ground" (lines 33-56).
Canonical(p, flight, on_ground) ==
    JObj(
    [ hex           |-> Get(p, "hex"),
      type          |-> Get(p, "type"),
      flight        |-> Or(JStr(flight), None),
      t             |-> Get(p, "t"),
      aircraft_type |-> Get(p, "t"),
      description   |-> Get(p, "desc"),
      category      |-> Get(p, "category"),
      lat           |-> Get(p, "lat"),
      lon           |-> Get(p, "lon"),
      alt_baro      |-> Get(p, "alt_baro"),
      ground_speed  |-> Get(p, "gs"),
      true_heading  |-> Get(p, "true_heading"),
      nav_modes     |-> GetD(p, "nav_modes", JList(<<>>)),
      on_ground     |-> JBool(on_ground),
      squawk        |-> Get(p, "squawk"),
      emergency     |-> Get(p, "emergency"),
      distance      |-> Get(p, "dst"),
      bearing       |-> Get(p, "dir"),
      seen          |-> Get(p, "seen"),
      seen_pos      |-> Get(p, "seen_pos"),
      messages      |-> Get(p, "messages"),
      rssi          |-> Get(p, "rssi") ])

\* the call does not return: `.strip()` is looked up on a value that is no
\* string
AttributeError == [tag |-> "raise", why |-> "AttributeError"]

\* a normalize_plane that forgets .strip()
normalize_plane_nostrip(p) ==
    LET raw == Or(Get(p, "flight"), JStr(<<>>)) IN
    IF raw.tag # "str" THEN AttributeError
    ELSE Canonical(p, raw.s, PyEq(Get(p, "alt_baro"), JStr(Ground)))

\* p is one raw record (a dict); the result is the canonical record (a dict),
\* or AttributeError when the raw flight is truthy and no string.
\*   flight = (p.get("flight") or "").strip()
\*   "on_ground": p.get("alt_baro") == "ground"
normalize_plane(p) ==
    LET raw == Or(Get(p, "flight"), JStr(<<>>)) IN
    IF raw.tag # "str" THEN AttributeError
    ELSE Canonical(p, Strip(raw.s), PyEq(Get(p, "alt_baro"), JStr(Ground)))

---------------------------------------------------------------------------
(* The host's state machine and the configuration *)

Coords == {"sensor", "geo_location"}

\* the entity the config entry refers to, and one that was never registered
HomeId == "zone.home"
GoneId == "zone.gone"
EntityIds == {HomeId, GoneId}

\* __init__.py: the platforms one config entry is forwarded to
PLATFORMS == Coords

\* the default radius of async_setup_entry, entry.data.get(CONF_DISTANCE, 25.0)
DefaultDistance == 25

\* mapping.get(k, dflt) on entry.data and entry.options
EntryGet(m, k, dflt) == IF k \in DOMAIN m THEN m[k] ELSE dflt

\* a config entry as the config flow leaves it
PlainEntry ==
    [data |-> [name |-> JStr(<<78>>), location_entity_id |-> HomeId,
               distance |-> 25],
     options |-> [k \in {} |-> 0]]

\* a config entry whose options (written by the options flow) replace the
\* entity and the radius of its data
OptionsEntry ==
    [data |-> [name |-> JStr(<<78>>), location_entity_id |-> GoneId,
               distance |-> 25],
     options |-> [location_entity_id |-> HomeId, distance |-> 10]]

Entries == {PlainEntry, OptionsEntry}

NoConfig == [tag |-> "none"]

\* sensor.py lines 131-144, geo_location.py lines 28-41: the arguments the
\* PlanesCoordinator is built with, options before data
ConfigOf(e) ==
    [tag |-> "config",
     location_entity_id |->
        EntryGet(e.options, "location_entity_id",
                 EntryGet(e.data, "location_entity_id", None)),
     distance |->
        EntryGet(e.options, "distance",
                 EntryGet(e.data, "distance", DefaultDistance))]

NoState == None
StateOf(attrs) == [tag |-> "state", attributes |-> JObj(attrs)]

\* The states the location entity takes before a coordinator: two positions
\* (latitude 0 is a valid one), a null latitude, a missing latitude key, and
\* no state at all.
CoordLocStates ==
    { NoState,
      StateOf([latitude |-> JNum(0), longitude |-> JNum(2)]),
      StateOf([latitude |-> JNum(1), longitude |-> JNum(2)]),
      StateOf([latitude |-> None, longitude |-> JNum(2)]),
      StateOf([longitude |-> JNum(2)]) }

\* The states the location entity takes before the flows: two positions, a
\* null latitude, a missing latitude key, no coordinates at all.
LocStates ==
    { StateOf([latitude |-> JNum(0), longitude |-> JNum(2)]),
      StateOf([latitude |-> JNum(1), longitude |-> JNum(2)]),
      StateOf([latitude |-> None, longitude |-> JNum(2)]),
      StateOf([longitude |-> JNum(2)]),
      StateOf([friendly_name |-> JStr(<<104>>)]) }

---------------------------------------------------------------------------
(* What the ADSB.fi endpoint can answer *)

PlaneA == JObj([hex |-> JStr(<<97>>), flight |-> JStr(<<70, 32>>),
                alt_baro |-> JNum(1000), t |-> JStr(<<66>>),
                nav_modes |-> JList(<<JStr(<<120>>)>>)])
PlaneB == JObj([hex |-> JStr(<<98>>), flight |-> None,
                alt_baro |-> JStr(Ground)])
PlaneEmptyHex == JObj([hex |-> JStr(<<>>), alt_baro |-> JNum(500)])
PlaneNoHex == JObj([alt_baro |-> JStr(Ground), flight |-> JStr(<<32>>)])

\* a record whose flight is a number
PlaneNumFlight == JObj([hex |-> JStr(<<99>>), flight |-> JNum(5)])

\* a record whose hex is a list, which no set can hold, and one whose hex is
\* the number 0
PlaneListHex == JObj([hex |-> JList(<<JStr(<<120>>)>>), alt_baro |-> JNum(700)])
PlaneZeroHex == JObj([hex |-> JNum(0), alt_baro |-> JNum(300)])

RawPlanes == {PlaneA, PlaneB, PlaneEmptyHex, PlaneListHex}

SeqsUpTo(S, n) == UNION { [1..k -> S] : k \in 0..n }

\* a 2xx answer with its parsed JSON body, or the exception the GET ends in
OkResp(body) == [tag |-> "ok", body |-> body]
ErrResp(why) == [tag |-> "err", why |-> why]
NoResp == [tag |-> "none"]

Bodies ==
    { JObj([ac |-> JList(l)]) : l \in SeqsUpTo(RawPlanes, MaxPlanes) }
      \cup { JObj([now |-> JNum(1)]),                  \* no 'ac' key
             JObj([ac |-> None]),                      \* 'ac': null
             JList(<<>>),                              \* the body is not an object
             JObj([ac |-> JList(<<JNum(7)>>)]),        \* an element is not an object
             JObj([ac |-> JList(<<PlaneA, PlaneNumFlight>>)]) }
                                                       \* a flight is not a string

Responses ==
    { OkResp(b) : b \in Bodies }
      \cup { ErrResp(w) : w \in {"status", "timeout", "connection", "json"} }

\* Where an answer ends the wait. Before the head of the answer (rd false,
\* lines 108-109): the GET fails to connect, raise_for_status raises on a
\* status that is not 2xx, or the timeout of line 107 fires. While the body
\* is read (rd true, line 110): the body arrives and parses, it is not JSON,
\* the connection breaks, or the timeout fires.
EndsAt(resp, rd) ==
    IF resp.tag = "ok"
    THEN rd
    ELSE IF rd
         THEN resp.why \in {"json", "connection", "timeout"}
         ELSE resp.why \in {"status", "connection", "timeout"}

\* The answers and the location states used where both coordinators run side
\* by side: every kind of hex (a string, empty, missing, a falsy number, an
\* unhashable list), with and without an error.
SharedPlanes == {PlaneA, PlaneEmptyHex, PlaneNoHex, PlaneZeroHex, PlaneListHex}

SharedResponses ==
    { OkResp(JObj([ac |-> JList(l)])) : l \in SeqsUpTo(SharedPlanes, MaxShared) }
      \cup { ErrResp("timeout") }

SharedLocStates ==
    { NoState, StateOf([latitude |-> JNum(1), longitude |-> JNum(2)]) }

---------------------------------------------------------------------------
(* sensor.py: PlanesCoordinator *)

\* the URL of a GET: its latitude, longitude and distance
Url(lat, lon, distance) == [lat |-> lat, lon |-> lon, dist |-> distance]

\* a start of _async_update_data that tests `not lat or not lon` instead of
\* `is None`
update_data_start_falsy(hs, location_entity_id, distance) ==
    LET state == hs[location_entity_id] IN
    IF ~(state.tag = "state")
    THEN <<>>
    ELSE LET lat == Get(state.attributes, "latitude")
             lon == Get(state.attributes, "longitude")
         IN IF ~Truthy(lat) \/ ~Truthy(lon)
            THEN <<>>
            ELSE <<Url(lat, lon, distance)>>

\* _async_update_data up to `async with session.get(url)` (lines 77-108), for
\* the hass.states `hs` and the coordinator's entity id and distance: the GET
\* it goes on to await, or <<>> when it returns [] without one
_async_update_data_start(hs, location_entity_id, distance) ==
    LET state == hs[location_entity_id] IN
    IF ~(state.tag = "state")
    THEN <<>>
    ELSE LET lat == Get(state.attributes, "latitude")
             lon == Get(state.attributes, "longitude")
         IN IF lat = None \/ lon = None
            THEN <<>>
            ELSE <<Url(lat, lon, distance)>>

\* normalize_plane raises for one of the records
AnyRaises(planes) == \E i \in 1..Len(planes) : planes[i].tag = "raise"

\* a Parse that drops the records that carry no hex
RECURSIVE WithHex(_)
WithHex(l) ==
    IF l = <<>> THEN <<>>
    ELSE IF Truthy(Get(Head(l), "hex"))
         THEN <<normalize_plane(Head(l))>> \o WithHex(Tail(l))
         ELSE WithHex(Tail(l))

Parse_skip_hexless(resp) ==
    IF resp.tag # "ok" \/ resp.body.tag # "obj"
    THEN [raised |-> TRUE, planes |-> <<>>]
    ELSE LET raw_planes == Or(GetD(resp.body, "ac", JList(<<>>)), JList(<<>>)) IN
         IF raw_planes.tag # "list"
              \/ \E i \in 1..Len(raw_planes.l) : raw_planes.l[i].tag # "obj"
         THEN [raised |-> TRUE, planes |-> <<>>]
         ELSE LET planes == WithHex(raw_planes.l)
              IN IF AnyRaises(planes)
                 THEN [raised |-> TRUE, planes |-> <<>>]
                 ELSE [raised |-> FALSE, planes |-> planes]

\* lines 108-113: the body of the try block once the GET is answered.
\* session.get / raise_for_status / resp.json() raise on resp.tag = "err",
\* data.get raises when the body is no dict, the comprehension raises when
\* raw_planes is no list, an element is no dict or normalize_plane raises
\* for an element; planes is assigned only when the whole comprehension has
\* run.
Parse(resp) ==
    IF resp.tag # "ok" \/ resp.body.tag # "obj"
    THEN [raised |-> TRUE, planes |-> <<>>]
    ELSE LET raw_planes == Or(GetD(resp.body, "ac", JList(<<>>)), JList(<<>>)) IN
         IF raw_planes.tag # "list"
              \/ \E i \in 1..Len(raw_planes.l) : raw_planes.l[i].tag # "obj"
         THEN [raised |-> TRUE, planes |-> <<>>]
         ELSE LET planes == [i \in 1..Len(raw_planes.l) |->
                               normalize_plane(raw_planes.l[i])]
              IN IF AnyRaises(planes)
                 THEN [raised |-> TRUE, planes |-> <<>>]
                 ELSE [raised |-> FALSE, planes |-> planes]

\* an end of _async_update_data without the `except Exception` of line 117
update_data_end_reraise(resp) ==
    [planes |-> Parse(resp).planes, raised |-> Parse(resp).raised]

\* _async_update_data from the answer of the GET to its return (lines
\* 108-120): the list it returns and whether an exception leaves it.
\* `except Exception` (line 117) swallows what Parse raises: planes stays [].
_async_update_data_end(resp) ==
    [planes |-> Parse(resp).planes, raised |-> FALSE]

\* DataUpdateCoordinator._async_refresh once _async_update_data is over with
\* outcome r, having issued `gets` and received `resp`: the result becomes
\* coordinator.data unless the update raised, in which case the old data
\* stays and last_update_success drops; then the listeners are called.
EndCycle(c, gets, resp, r) ==
    /\ fetch' = [fetch EXCEPT ![c] = [gets |-> gets, resp |-> resp]]
    /\ data' = [data EXCEPT ![c] = IF r.raised THEN @ ELSE JList(r.planes)]
    /\ ok' = [ok EXCEPT ![c] = ~r.raised]
    /\ notified' = [notified EXCEPT ![c] = TRUE]
    /\ pending' = [pending EXCEPT ![c] = <<>>]
    /\ reading' = [reading EXCEPT ![c] = FALSE]

\* a refresh of coordinator c (built with cfg) starts: _async_update_data
\* runs up to its GET and suspends there, or returns [] at once when the
\* entity or a coordinate is missing
BeginCycle(c, cfg) ==
    \E gets \in {_async_update_data_start(states, cfg.location_entity_id,
                                          cfg.distance)} :
        IF gets = <<>>
        THEN EndCycle(c, <<>>, NoResp, [planes |-> <<>>, raised |-> FALSE])
        ELSE /\ pending' = [pending EXCEPT ![c] = gets]
             /\ UNCHANGED <<reading, data, fetch, ok, notified>>

\* lines 108-110: the head of a 2xx answer resumes the cycle of coordinator
\* c at `async with session.get(url) as resp`; raise_for_status passes and
\* the cycle suspends again at `await resp.json()`. Nothing else changes.
HeadCycle(c) ==
    /\ pending[c] # <<>>
    /\ ~reading[c]
    /\ reading' = [reading EXCEPT ![c] = TRUE]
    /\ UNCHANGED <<states, entry, config, pending, data, fetch, ok, notified,
                   phase, entities, added, flowVars, normVars>>

\* the wait of coordinator c ends with resp, at the GET (lines 108-109) or
\* at the reading of the body (line 110): the rest of the cycle
AnswerCycle(c, resp) ==
    /\ pending[c] # <<>>
    /\ EndsAt(resp, reading[c])
    /\ \E r \in {_async_update_data_end(resp)} :
           EndCycle(c, pending[c], resp, r)

\* `coordinator.data or []`
PlanesOf(d) == (Or(d, JList(<<>>))).l

---------------------------------------------------------------------------
(* sensor.py: PlanesNearbySensor *)

\* each platform's async_setup_entry builds a PlanesCoordinator of its own
SensorCoordinator == "sensor"
GeoCoordinator == "geo_location"

\* a native_value filter that forgets the `not`
RECURSIVE Airborne_no_not(_)
Airborne_no_not(planes) ==
    IF planes = <<>> THEN <<>>
    ELSE IF Truthy(Get(Head(planes), "on_ground"))
         THEN <<Head(planes)>> \o Airborne_no_not(Tail(planes))
         ELSE Airborne_no_not(Tail(planes))

\* native_value (lines 162-167): [p for p in planes if not p.get("on_ground")]
RECURSIVE Airborne(_)
Airborne(planes) ==
    IF planes = <<>> THEN <<>>
    ELSE IF ~Truthy(Get(Head(planes), "on_ground"))
         THEN <<Head(planes)>> \o Airborne(Tail(planes))
         ELSE Airborne(Tail(planes))

native_value == Len(Airborne(PlanesOf(data[SensorCoordinator])))

extra_state_attributes ==
    [total_planes |-> Len(PlanesOf(data[SensorCoordinator])),
     planes |-> PlanesOf(data[SensorCoordinator])]

---------------------------------------------------------------------------
(* geo_location.py *)

NoRaise(new_entities) == [raised |-> FALSE, new |-> new_entities]
TypeError == [raised |-> TRUE, new |-> <<>>]

\* the entity for hex_id put before what the rest of the loop appends, unless
\* the rest of the loop raises
Prepend(hex_id, rest) ==
    IF rest.raised THEN rest ELSE NoRaise(<<hex_id>> \o rest.new)

\* the loop without the `not hex_id` test
RECURSIVE NewEntities_any_hex(_, _)
NewEntities_any_hex(planes, existing_hexes) ==
    IF planes = <<>> THEN NoRaise(<<>>)
    ELSE LET hex_id == Get(Head(planes), "hex") IN
         IF ~Hashable(hex_id) THEN TypeError
         ELSE IF PyIn(hex_id, existing_hexes)
         THEN NewEntities_any_hex(Tail(planes), existing_hexes)
         ELSE Prepend(hex_id, NewEntities_any_hex(Tail(planes),
                                                  existing_hexes \cup {hex_id}))

\* the loop of _update_entities (lines 52-58) over the planes left to visit:
\* the hex ids of the entities it appends to new_entities, or the TypeError
\* that `hex_id in existing_hexes` raises for a truthy list or dict
RECURSIVE NewEntities(_, _)
NewEntities(planes, existing_hexes) ==
    IF planes = <<>> THEN NoRaise(<<>>)
    ELSE LET hex_id == Get(Head(planes), "hex") IN
         IF ~Truthy(hex_id) THEN NewEntities(Tail(planes), existing_hexes)
         ELSE IF ~Hashable(hex_id) THEN TypeError
         ELSE IF PyIn(hex_id, existing_hexes)
         THEN NewEntities(Tail(planes), existing_hexes)
         ELSE Prepend(hex_id, NewEntities(Tail(planes),
                                          existing_hexes \cup {hex_id}))

\* _update_entities (lines 47-62) run against the coordinator data d; when
\* the loop raises, nothing is appended and nothing is handed on
_update_entities(d) ==
    LET existing_hexes == {entities[i] : i \in 1..Len(entities)} IN
    \E r \in {NewEntities(PlanesOf(d), existing_hexes)} :
       /\ entities' = entities \o r.new
       /\ added' = [added EXCEPT ![GeoCoordinator] = @ \o r.new]
       /\ phase' = [phase EXCEPT ![GeoCoordinator] =
                       IF @ = "new" /\ r.raised THEN "failed" ELSE "ready"]

\* a _plane whose loop returns None at the first record that does not match
FirstWithHex_head_only(planes, hex_id) ==
    IF planes = <<>> THEN None
    ELSE IF PyEq(Get(Head(planes), "hex"), hex_id) THEN Head(planes) ELSE None

\* PlaneGeoLocation._plane (lines 79-84): the first record with this hex
RECURSIVE FirstWithHex(_, _)
FirstWithHex(planes, hex_id) ==
    IF planes = <<>> THEN None
    ELSE IF PyEq(Get(Head(planes), "hex"), hex_id) THEN Head(planes)
         ELSE FirstWithHex(Tail(planes), hex_id)

_plane(hex_id) == FirstWithHex(PlanesOf(data[GeoCoordinator]), hex_id)

\* PlaneGeoLocation.available (lines 86-89)
available(hex_id) == _plane(hex_id) # None

---------------------------------------------------------------------------
(* config_flow.py *)

\* DEFAULT_NAME is imported from const.py; its value is kept symbolic
DEFAULT_NAME == JStr(<<68>>)

NoErrors == {}
InvalidEntity == {<<"base", "invalid_entity">>}

\* a validation that raises only when both attributes are missing
validate_both_missing(hs, entity_id) ==
    LET state == hs[entity_id] IN
    IF ~(state.tag = "state") THEN TRUE
    ELSE LET attrs == state.attributes IN
         "latitude" \notin DOMAIN attrs.o /\ "longitude" \notin DOMAIN attrs.o

\* _validate_location_entity (lines 24-34): TRUE when it raises
\* InvalidLocationEntity
_validate_location_entity(hs, entity_id) ==
    LET state == hs[entity_id] IN
    IF ~(state.tag = "state") THEN TRUE
    ELSE LET attrs == state.attributes IN
         "latitude" \notin DOMAIN attrs.o \/ "longitude" \notin DOMAIN attrs.o

NoInput == None

\* what a user can submit in the "user" form and in the options form
UserInputs ==
    { JObj([name |-> n, location_entity_id |-> e, distance |-> d]) :
        n \in {JStr(<<>>), JStr(<<78>>)}, e \in EntityIds, d \in {10, 25} }
      \cup { JObj([location_entity_id |-> e, distance |-> d]) :
               e \in EntityIds, d \in {10, 25} }

OptionInputs ==
    { JObj([location_entity_id |-> e, distance |-> d]) :
        e \in EntityIds, d \in {10, 25} }

ShowForm(step_id, errors, user_input, before) ==
    [type |-> "form", step_id |-> step_id, errors |-> errors,
     input |-> user_input, before |-> before]

CreateEntry(title, d, user_input, before) ==
    [type |-> "create_entry", title |-> title, data |-> d,
     input |-> user_input, before |-> before]

\* a flow handler as __init__ leaves it (lines 42-43, 96-99)
NewFlow == [type |-> "none"]

\* PlanesNearbyConfigFlow.async_step_user (lines 45-80)
async_step_user(user_input) ==
    /\ flowResult["user"].type # "create_entry"
    /\ LET before == flowErrors["user"] IN
       IF user_input # None
            /\ ~_validate_location_entity(states, user_input.o.location_entity_id)
       THEN LET name == Or(Get(user_input, "name"), DEFAULT_NAME)
                new_data == [name |-> name,
                          location_entity_id |-> user_input.o.location_entity_id,
                          distance |-> user_input.o.distance]
            IN /\ flowErrors' = [flowErrors EXCEPT !["user"] = NoErrors]
               /\ flowResult' = [flowResult EXCEPT !["user"] =
                                    CreateEntry(name, new_data, user_input, before)]
               /\ created' = created \cup {[flow |-> "user", data |-> new_data]}
       ELSE LET errors == IF user_input # None THEN InvalidEntity ELSE NoErrors IN
            /\ flowErrors' = [flowErrors EXCEPT !["user"] = errors]
            /\ flowResult' = [flowResult EXCEPT !["user"] =
                                 ShowForm("user", errors, user_input, before)]
            /\ created' = created
    /\ UNCHANGED <<states, coordVars, normVars>>

\* PlanesNearbyOptionsFlowHandler.async_step_init (lines 102-147); the defaults
\* the form's schema shows (lines 125-143) change no state and are left out
async_step_init(user_input) ==
    /\ flowResult["init"].type # "create_entry"
    /\ LET before == flowErrors["init"] IN
       IF user_input # None
            /\ ~_validate_location_entity(states, user_input.o.location_entity_id)
       THEN LET new_data == [location_entity_id |-> user_input.o.location_entity_id,
                          distance |-> user_input.o.distance]
            IN /\ flowErrors' = [flowErrors EXCEPT !["init"] = NoErrors]
               /\ flowResult' = [flowResult EXCEPT !["init"] =
                                    CreateEntry(JStr(<<>>), new_data, user_input, before)]
               /\ created' = created \cup {[flow |-> "init", data |-> new_data]}
       ELSE LET errors == IF user_input # None THEN InvalidEntity ELSE NoErrors IN
            /\ flowErrors' = [flowErrors EXCEPT !["init"] = errors]
            /\ flowResult' = [flowResult EXCEPT !["init"] =
                                 ShowForm("init", errors, user_input, before)]
            /\ created' = created
    /\ UNCHANGED <<states, coordVars, normVars>>

\* the host opens a fresh handler once the previous flow has finished
StartFlow(f) ==
    /\ flowResult[f].type = "create_entry"
    /\ flowErrors' = [flowErrors EXCEPT ![f] = NoErrors]
    /\ flowResult' = [flowResult EXCEPT ![f] = NewFlow]
    /\ UNCHANGED <<states, coordVars, created, normVars>>

---------------------------------------------------------------------------
(* Operations *)

\* the host writes a new state for the location entity, or removes it
SetState(s) ==
    /\ states[HomeId] # s
    /\ states' = [states EXCEPT ![HomeId] = s]
    /\ UNCHANGED <<coordVars, flowVars, normVars>>

\* sensor.py line 149: async_add_entities([PlanesNearbySensor(...)], True)
AddSensor ==
    /\ added' = [added EXCEPT ![SensorCoordinator] = @ \o <<"planes_nearby_sensor">>]
    /\ phase' = [phase EXCEPT ![SensorCoordinator] = "ready"]

\* sensor.py async_setup_entry (lines 123-149) up to the point where its
\* first refresh awaits the GET; all of it when the refresh issues none
SetupSensor ==
    /\ phase[SensorCoordinator] = "new"
    /\ pending[SensorCoordinator] = <<>>
    /\ config' = [config EXCEPT ![SensorCoordinator] = ConfigOf(entry)]
    /\ BeginCycle(SensorCoordinator, config'[SensorCoordinator])
    /\ IF pending'[SensorCoordinator] = <<>>
       THEN AddSensor
       ELSE UNCHANGED <<phase, added>>
    /\ UNCHANGED <<states, entry, entities, flowVars, normVars>>

\* geo_location.py async_setup_entry (lines 21-67) up to the point where its
\* first refresh awaits the GET; all of it when the refresh issues none
SetupGeo ==
    /\ phase[GeoCoordinator] = "new"
    /\ pending[GeoCoordinator] = <<>>
    /\ config' = [config EXCEPT ![GeoCoordinator] = ConfigOf(entry)]
    /\ BeginCycle(GeoCoordinator, config'[GeoCoordinator])
    /\ IF pending'[GeoCoordinator] = <<>>
       THEN _update_entities(data'[GeoCoordinator])
       ELSE UNCHANGED <<phase, entities, added>>
    /\ UNCHANGED <<states, entry, flowVars, normVars>>

\* the sensor coordinator's timer fires: a refresh cycle starts; when it
\* issues no GET it ends at once and the listeners run (the sensor entity
\* re-reads coordinator.data)
RefreshSensor ==
    /\ phase[SensorCoordinator] = "ready"
    /\ pending[SensorCoordinator] = <<>>
    /\ BeginCycle(SensorCoordinator, config[SensorCoordinator])
    /\ UNCHANGED <<states, entry, config, phase, entities, added, flowVars,
                   normVars>>

\* the geo_location coordinator's timer fires: a refresh cycle starts; when
\* it issues no GET it ends at once and the listeners run, the first of
\* which is _update_entities
RefreshGeo ==
    /\ phase[GeoCoordinator] = "ready"
    /\ pending[GeoCoordinator] = <<>>
    /\ BeginCycle(GeoCoordinator, config[GeoCoordinator])
    /\ IF pending'[GeoCoordinator] = <<>>
       THEN _update_entities(data'[GeoCoordinator])
       ELSE UNCHANGED <<phase, entities, added>>
    /\ UNCHANGED <<states, entry, config, flowVars, normVars>>

\* the head of a 2xx answer reaches the sensor coordinator
HeadSensor == HeadCycle(SensorCoordinator)

\* the head of a 2xx answer reaches the geo_location coordinator
HeadGeo == HeadCycle(GeoCoordinator)

\* the wait of the sensor coordinator ends (the GET fails, or the body has
\* arrived or failed): the cycle ends, and with it the rest of
\* async_setup_entry when this was the first refresh
AnswerSensor(resp) ==
    /\ AnswerCycle(SensorCoordinator, resp)
    /\ IF phase[SensorCoordinator] = "new"
       THEN AddSensor
       ELSE UNCHANGED <<phase, added>>
    /\ UNCHANGED <<states, entry, config, entities, flowVars, normVars>>

\* the wait of the geo_location coordinator ends (the GET fails, or the body
\* has arrived or failed): the cycle ends, then _update_entities runs, as the
\* listener or as line 65 of async_setup_entry
AnswerGeo(resp) ==
    /\ AnswerCycle(GeoCoordinator, resp)
    /\ _update_entities(data'[GeoCoordinator])
    /\ UNCHANGED <<states, entry, config, flowVars, normVars>>

\* the state of coordinator and platform p before async_setup_entry
Fresh(f, platforms, v) == [p \in Coords |-> IF p \in platforms THEN v ELSE f[p]]

\* __init__.py async_unload_entry (lines 20-23) for the loaded platforms:
\* the host removes their entities and drops their coordinators (a GET still
\* awaited is cancelled); a later setup builds new ones
async_unload_entry(platforms) ==
    /\ \A p \in platforms : phase[p] = "ready"
    /\ phase' = Fresh(phase, platforms, "new")
    /\ config' = Fresh(config, platforms, NoConfig)
    /\ pending' = Fresh(pending, platforms, <<>>)
    /\ reading' = Fresh(reading, platforms, FALSE)
    /\ data' = Fresh(data, platforms, None)
    /\ fetch' = Fresh(fetch, platforms, [gets |-> <<>>, resp |-> NoResp])
    /\ ok' = Fresh(ok, platforms, TRUE)
    /\ notified' = Fresh(notified, platforms, FALSE)
    /\ added' = Fresh(added, platforms, <<>>)
    /\ entities' = IF GeoCoordinator \in platforms THEN <<>> ELSE entities
    /\ UNCHANGED <<states, entry, flowVars, normVars>>

---------------------------------------------------------------------------
(* Raw records handed to normalize_plane *)

Absent == [tag |-> "absent"]

\* the dict holding the keys of f whose value is not Absent
Dict(f) == JObj([k \in {x \in DOMAIN f : f[x] # Absent} |-> f[k]])

\* space, form feed, no-break space and 'A'
FlightChars == {32, 12, 160, 65}

\* no flight, null, every string up to the bound, and the numbers 0 and 5
FlightValues ==
    {Absent, None, JNum(0), JNum(5)}
      \cup { JStr(s) : s \in SeqsUpTo(FlightChars, MaxFlightLen) }

AltValues ==
    {Absent, None, JStr(Ground), JStr(<<71>>), JNum(0), JNum(1000)}

NavValues == {Absent, None, JList(<<>>), JList(<<JStr(<<120>>)>>)}

HexValues == {Absent, None, JStr(<<97>>)}

NormInputs ==
    { Dict([hex |-> h, flight |-> f, alt_baro |-> a, nav_modes |-> n]) :
        h \in HexValues, f \in FlightValues, a \in AltValues, n \in NavValues }

NotCalled == [tag |-> "pending"]

\* the call of normalize_plane on the record normIn
Normalize ==
    /\ normOut = NotCalled
    /\ normOut' = normalize_plane(normIn)
    /\ UNCHANGED <<states, coordVars, flowVars, normIn>>

---------------------------------------------------------------------------
(* Specifications *)

InitWith(e) ==
    /\ states = [id \in EntityIds |->
                    IF id = HomeId
                    THEN StateOf([latitude |-> JNum(1), longitude |-> JNum(2)])
                    ELSE NoState]
    /\ entry = e
    /\ config = [c \in Coords |-> NoConfig]
    /\ pending = [c \in Coords |-> <<>>]
    /\ reading = [c \in Coords |-> FALSE]
    /\ data = [c \in Coords |-> None]
    /\ fetch = [c \in Coords |-> [gets |-> <<>>, resp |-> NoResp]]
    /\ ok = [c \in Coords |-> TRUE]
    /\ notified = [c \in Coords |-> FALSE]
    /\ phase = [c \in Coords |-> "new"]
    /\ entities = <<>>
    /\ added = [c \in Coords |-> <<>>]
    /\ flowErrors = [f \in {"user", "init"} |-> NoErrors]
    /\ flowResult = [f \in {"user", "init"} |-> NewFlow]
    /\ created = {}
    /\ normIn = None
    /\ normOut = None

\* nothing is set up yet; the entry is the one the config flow left
Init == InitWith(PlainEntry)

\* as Init, for either entry
InitEntries == \E e \in Entries : InitWith(e)

\* as Init, with a raw record about to be normalized
InitNorm ==
    /\ states = [id \in EntityIds |-> NoState]
    /\ entry = PlainEntry
    /\ config = [c \in Coords |-> NoConfig]
    /\ pending = [c \in Coords |-> <<>>]
    /\ reading = [c \in Coords |-> FALSE]
    /\ data = [c \in Coords |-> None]
    /\ fetch = [c \in Coords |-> [gets |-> <<>>, resp |-> NoResp]]
    /\ ok = [c \in Coords |-> TRUE]
    /\ notified = [c \in Coords |-> FALSE]
    /\ phase = [c \in Coords |-> "new"]
    /\ entities = <<>>
    /\ added = [c \in Coords |-> <<>>]
    /\ flowErrors = [f \in {"user", "init"} |-> NoErrors]
    /\ flowResult = [f \in {"user", "init"} |-> NewFlow]
    /\ created = {}
    /\ normIn \in NormInputs
    /\ normOut = NotCalled

\* both platforms of one config entry (either one), each with its coordinator
Next ==
    \/ \E s \in SharedLocStates : SetState(s)
    \/ SetupSensor
    \/ SetupGeo
    \/ RefreshSensor
    \/ RefreshGeo
    \/ HeadSensor
    \/ HeadGeo
    \/ \E resp \in SharedResponses : AnswerSensor(resp)
    \/ \E resp \in SharedResponses : AnswerGeo(resp)
    \/ async_unload_entry(PLATFORMS)

Spec == InitEntries /\ [][Next]_vars

\* the geo_location platform and its coordinator, every answer of the endpoint
NextGeo ==
    \/ \E s \in CoordLocStates : SetState(s)
    \/ SetupGeo
    \/ RefreshGeo
    \/ HeadGeo
    \/ \E resp \in Responses : AnswerGeo(resp)
    \/ async_unload_entry({GeoCoordinator})

SpecGeo == Init /\ [][NextGeo]_vars

\* the sensor platform and its coordinator, every answer of the endpoint and
\* either entry
NextSensor ==
    \/ \E s \in CoordLocStates : SetState(s)
    \/ SetupSensor
    \/ RefreshSensor
    \/ HeadSensor
    \/ \E resp \in Responses : AnswerSensor(resp)
    \/ async_unload_entry({SensorCoordinator})

SpecSensor == InitEntries /\ [][NextSensor]_vars

\* the setup wizard and the options flow
NextFlow ==
    \/ \E s \in LocStates \cup {NoState} : SetState(s)
    \/ \E ui \in UserInputs \cup {NoInput} : async_step_user(ui)
    \/ \E ui \in OptionInputs \cup {NoInput} : async_step_init(ui)
    \/ \E f \in {"user", "init"} : StartFlow(f)

SpecFlow == Init /\ [][NextFlow]_vars

\* the normalizer on its own
NextNorm == Normalize

SpecNorm == InitNorm /\ [][NextNorm]_vars

---------------------------------------------------------------------------
(* Properties *)

Geo == "geo_location"
Sen == "sensor"

\* the snapshot a coordinator caches, as a sequence of records
Snapshot(c) == IF data[c].tag = "list" THEN data[c].l ELSE <<>>

HexAt(planes, i) == planes[i].o.hex
HexesIn(planes) == { HexAt(planes, i) : i \in 1..Len(planes) }
\* h is a hex a record carries: none of null, '', 0, false, [] and {}
NonEmptyHex(h) ==
    ~ \/ h.tag = "null"
      \/ h.tag = "str" /\ h.s = <<>>
      \/ h.tag = "num" /\ h.n = 0
      \/ h.tag = "bool" /\ ~h.b
      \/ h.tag = "list" /\ h.l = <<>>
      \/ h.tag = "obj" /\ DOMAIN h.o = {}
EntitySet == { entities[i] : i \in 1..Len(entities) }

\* the flight of raw record p is a string, null or absent
FlightIsText(p) == "flight" \in DOMAIN p => p.flight.tag \in {"str", "null"}

\* the value `or` replaces: null, '', 0, false, [] and {}
Falsy(v) ==
    \/ v.tag = "null"
    \/ v.tag = "str" /\ v.s = <<>>
    \/ v.tag = "num" /\ v.n = 0
    \/ v.tag = "bool" /\ ~v.b
    \/ v.tag = "list" /\ v.l = <<>>
    \/ v.tag = "obj" /\ DOMAIN v.o = {}

\* a body every element of whose 'ac' array can be normalized: an object
\* whose 'ac' is absent, falsy, or a list of objects none of which has a
\* flight that is neither a string nor falsy
WellFormed(body) ==
    /\ body.tag = "obj"
    /\ "ac" \in DOMAIN body.o =>
          \/ Falsy(body.o.ac)
          \/ /\ body.o.ac.tag = "list"
             /\ \A i \in 1..Len(body.o.ac.l) :
                   /\ body.o.ac.l[i].tag = "obj"
                   /\ \/ FlightIsText(body.o.ac.l[i].o)
                      \/ Falsy(body.o.ac.l[i].o.flight)

\* the 'ac' array of such a body
AcOf(body) ==
    IF "ac" \in DOMAIN body.o /\ ~Falsy(body.o.ac) THEN body.o.ac.l ELSE <<>>

\* the last cycle of coordinator c ended in one of the failures: no entity or
\* no coordinates (no GET was issued), the GET failed, or its body is not of
\* the expected shape
CycleFailed(c) ==
    \/ fetch[c].gets = <<>>
    \/ fetch[c].resp.tag = "err"
    \/ fetch[c].resp.tag = "ok" /\ ~WellFormed(fetch[c].resp.body)

\* C1: a refresh cycle that fails (entity missing, no latitude or longitude,
\* GET or body failure) still completes without raising, leaves the empty
\* list as the snapshot, and ends with the listeners notified: the markers
\* created so far stay, none is added.
C1_ErrorContainment ==
    phase[Geo] = "ready" /\ CycleFailed(Geo) =>
        /\ data[Geo] = JList(<<>>)
        /\ ok[Geo]
        /\ notified[Geo]

\* a failed cycle after a cycle that had delivered an aircraft
C1_Witness ==
    /\ phase[Geo] = "ready"
    /\ fetch[Geo].resp.tag = "err"
    /\ entities # <<>>
    /\ data[Geo] = JList(<<>>)

\* C2: once the geo_location setup has run its first refresh, every hex a
\* record of the current snapshot carries has exactly one marker entity.
C2_OneMarkerPerHex ==
    phase[Geo] # "new" =>
        \A h \in HexesIn(Snapshot(Geo)) :
            NonEmptyHex(h) =>
                Cardinality({i \in 1..Len(entities) : entities[i] = h}) = 1

\* C3: a marker is available exactly when the snapshot of its coordinator
\* holds a record with the marker's hex.
C3_AvailableIffInSnapshot ==
    \A e \in EntitySet :
        available(e) <=> \E i \in 1..Len(Snapshot(Geo)) : HexAt(Snapshot(Geo), i) = e

\* one marker's hex is the second record of the snapshot, another marker's
\* hex has dropped out
C3_Witness ==
    /\ Len(Snapshot(Geo)) = 2
    /\ \E e \in EntitySet :
          /\ HexAt(Snapshot(Geo), 2) = e
          /\ HexAt(Snapshot(Geo), 1) # e
          /\ available(e)
    /\ \E e \in EntitySet : ~available(e)

\* C4: once both platforms are set up, the list the sensor exposes and the
\* snapshot behind the markers come from the same fetch.
C4_SameSnapshot ==
    phase[Sen] = "ready" /\ phase[Geo] = "ready" =>
        /\ fetch[SensorCoordinator] = fetch[GeoCoordinator]
        /\ extra_state_attributes.planes = PlanesOf(data[GeoCoordinator])

\* C5: native_value is the number of records of the sensor's snapshot whose
\* on_ground is false, total_planes is the snapshot's length, planes is the
\* snapshot, and the value is 0 for an empty or absent snapshot.
C5_AirborneCount ==
    /\ native_value =
          Cardinality({i \in 1..Len(Snapshot(Sen)) :
                          Snapshot(Sen)[i].o.on_ground = JBool(FALSE)})
    /\ extra_state_attributes.total_planes = Len(Snapshot(Sen))
    /\ extra_state_attributes.planes = Snapshot(Sen)
    /\ (data[Sen] = None \/ data[Sen] = JList(<<>>)) => native_value = 0

\* one aircraft in the air and one on the ground
C5_Witness ==
    /\ phase[Sen] = "ready"
    /\ Len(Snapshot(Sen)) = 2
    /\ native_value = 1

\* the snapshot of coordinator c is the 'ac' array of its last answer
\* normalized element by element, in order
IsNormalized(c) ==
    /\ WellFormed(fetch[c].resp.body)
    /\ LET ac == AcOf(fetch[c].resp.body) IN
       /\ data[c].tag = "list"
       /\ Len(data[c].l) = Len(ac)
       /\ \A i \in 1..Len(ac) : data[c].l[i] = normalize_plane(ac[i])

\* C6 as stated: after a cycle whose GET was answered 2xx with a JSON body,
\* the snapshot is the response's 'ac' array normalized element by element,
\* in order (empty when 'ac' is absent or null).
C6_Original ==
    \A c \in Coords : fetch[c].resp.tag = "ok" => IsNormalized(c)

\* C6 amended: that holds when the body is an object whose 'ac' is absent,
\* falsy or a list of objects that can each be normalized; after any other
\* 2xx body the snapshot is the empty list. Either way nothing of an earlier
\* snapshot is in it.
C6_LatestOnly ==
    \A c \in Coords :
        fetch[c].resp.tag = "ok" =>
            IF WellFormed(fetch[c].resp.body)
            THEN IsNormalized(c)
            ELSE data[c] = JList(<<>>)

\* a two-record snapshot, one record without hex, after an earlier snapshot
\* whose aircraft is gone
C6_Witness ==
    /\ fetch[Geo].resp.tag = "ok"
    /\ Len(Snapshot(Geo)) = 2
    /\ ~NonEmptyHex(HexAt(Snapshot(Geo), 1))
    /\ \E e \in EntitySet : e \notin HexesIn(Snapshot(Geo))

\* the entity and the radius the entry configures: its options where they
\* name one, its data otherwise
Configured(e, k) == IF k \in DOMAIN e.options THEN e.options[k] ELSE e.data[k]

\* the GETs a cycle has to issue for the location entity as it is now
ExpectedGets(hs, e) ==
    LET st == hs[Configured(e, "location_entity_id")] IN
    IF /\ st # NoState
       /\ "latitude" \in DOMAIN st.attributes.o
       /\ "longitude" \in DOMAIN st.attributes.o
       /\ st.attributes.o.latitude # None
       /\ st.attributes.o.longitude # None
    THEN <<[lat |-> st.attributes.o.latitude, lon |-> st.attributes.o.longitude,
            dist |-> Configured(e, "distance")]>>
    ELSE <<>>

\* C7: a cycle awaits at most one GET. A cycle that starts while the entity
\* exists and has a latitude and a longitude issues one GET, for those
\* coordinates as they are at that moment and the configured distance, and
\* ends with that GET as its only one; a cycle that starts otherwise ends at
\* once without a GET.
C7_OneGetPerCycle ==
    /\ [](\A c \in Coords : Len(pending[c]) <= 1 /\ Len(fetch[c].gets) <= 1)
    /\ [][\A c \in Coords :
            /\ pending'[c] # pending[c] /\ pending'[c] # <<>> =>
                  pending[c] = <<>> /\ pending'[c] = ExpectedGets(states, entry)
            /\ pending[c] # <<>> /\ pending'[c] = <<>> /\ phase'[c] = "ready" =>
                  fetch'[c].gets = pending[c]
            /\ /\ pending[c] = <<>> /\ pending'[c] = <<>> /\ phase'[c] = "ready"
               /\ <<data[c], fetch[c], notified[c]>>
                     # <<data'[c], fetch'[c], notified'[c]>>
               => ExpectedGets(states, entry) = <<>> /\ fetch'[c].gets = <<>>]_vars

\* a cycle has ended with a GET for latitude 0 and the radius of the options,
\* not the latitude the entity had at start-up; the next one awaits a GET for
\* latitude 1 while the entity has since been removed
C7_Witness ==
    /\ phase[Sen] = "ready"
    /\ Len(fetch[Sen].gets) = 1
    /\ fetch[Sen].gets[1].lat = JNum(0)
    /\ fetch[Sen].gets[1].dist = 10
    /\ pending[Sen] # <<>>
    /\ pending[Sen][1].lat = JNum(1)
    /\ states[HomeId] = NoState

\* the entity exists and has both attributes
EntityValid(hs, entity_id) ==
    /\ hs[entity_id] # NoState
    /\ {"latitude", "longitude"} \subseteq DOMAIN hs[entity_id].attributes.o

\* C8: in both steps a submission creates an entry exactly when the entity it
\* names exists and has a latitude and a longitude attribute; otherwise no
\* entry is created and the form comes back with base = invalid_entity; a
\* valid submission leaves no error behind.
C8_FlowValidation ==
    [][\A f \in {"user", "init"} :
         flowResult'[f] # flowResult[f] /\ flowResult'[f].type # "none" =>
            LET res == flowResult'[f]
                ui  == res.input
            IN IF ui # NoInput /\ EntityValid(states, ui.o.location_entity_id)
               THEN /\ res.type = "create_entry"
                    /\ res.data.location_entity_id = ui.o.location_entity_id
                    /\ res.data.distance = ui.o.distance
                    /\ created' = created \cup {[flow |-> f, data |-> res.data]}
                    /\ flowErrors'[f] = NoErrors
               ELSE /\ res.type = "form"
                    /\ res.step_id = f
                    /\ created' = created
                    /\ res.errors = IF ui = NoInput THEN NoErrors ELSE InvalidEntity
                    /\ flowErrors'[f] = res.errors]_vars

\* in both flows a valid submission that followed a rejected one
C8_Witness ==
    \A f \in {"user", "init"} :
        /\ flowResult[f].type = "create_entry"
        /\ flowResult[f].before = InvalidEntity
        /\ flowErrors[f] = NoErrors

AllSpace(s) == \A i \in 1..Len(s) : IsSpace(s[i])

\* t is s without its leading and trailing whitespace
Trimmed(s, t) ==
    \E i \in 1..(Len(s) + 1) : \E j \in 0..Len(s) :
        /\ t = SubSeq(s, i, j)
        /\ AllSpace(SubSeq(s, 1, i - 1))
        /\ AllSpace(SubSeq(s, j + 1, Len(s)))
        /\ t # <<>> => ~IsSpace(t[1]) /\ ~IsSpace(t[Len(t)])

\* what C9 says of the result r for the raw record p: on_ground, flight and
\* nav_modes
Normalized(p, r) ==
    /\ r.on_ground.tag = "bool"
    /\ r.on_ground.b <=> ("alt_baro" \in DOMAIN p /\ p.alt_baro = JStr(Ground))
    /\ IF "flight" \notin DOMAIN p \/ p.flight = None
          \/ (p.flight.tag = "str" /\ AllSpace(p.flight.s))
       THEN r.flight = None
       ELSE /\ r.flight.tag = "str"
            /\ p.flight.tag = "str"
            /\ Trimmed(p.flight.s, r.flight.s)
    /\ "nav_modes" \notin DOMAIN p => r.nav_modes = JList(<<>>)
    /\ r.hex = (IF "hex" \in DOMAIN p THEN p.hex ELSE None)

\* C9 as stated: for every raw record the call returns a record whose
\* on_ground is true exactly when alt_baro is the string 'ground', whose
\* flight is None when the raw flight is absent, null or blank and otherwise
\* the raw flight without its surrounding whitespace, and whose nav_modes is
\* the empty list when the key is absent.
C9_Original ==
    normOut # NotCalled =>
        normOut.tag = "obj" /\ Normalized(normIn.o, normOut.o)

\* C9 amended: that holds for every raw record whose flight is a string, null
\* or absent; a raw flight that is no string gives flight None when it is
\* falsy and makes the call raise AttributeError when it is truthy.
C9_Normalize ==
    normOut # NotCalled =>
        IF FlightIsText(normIn.o)
        THEN normOut.tag = "obj" /\ Normalized(normIn.o, normOut.o)
        ELSE IF Truthy(normIn.o.flight)
             THEN normOut = AttributeError
             ELSE /\ normOut.tag = "obj"
                  /\ normOut.o.flight = None
                  /\ Normalized([k \in DOMAIN normIn.o \ {"flight"} |-> normIn.o[k]],
                                normOut.o)

\* a flight between a form feed and a no-break space, on the ground, without
\* nav_modes
C9_Witness ==
    /\ normOut # NotCalled
    /\ normIn.o = [flight |-> JStr(<<12, 65, 160>>), alt_baro |-> JStr(Ground)]
    /\ normOut.o.flight = JStr(<<65>>)
    /\ normOut.o.on_ground = JBool(TRUE)

\* the well-formed 'ac' array the sensor's coordinator last received
SensorRaw ==
    IF fetch[Sen].resp.tag = "ok" THEN AcOf(fetch[Sen].resp.body) ELSE <<>>

AvailableMarkers == { e \in EntitySet : available(e) }

\* C10: no marker has a null or empty hex_id, whatever the snapshots were;
\* the sensor counts every record of its snapshot, those without hex too:
\* total_planes is the number of raw records received, native_value the
\* number of those not on the ground; and the available markers are among
\* the hexes the records of the markers' snapshot carry, all of them when
\* none of these is a list or a dict.
C10_HexlessCounted ==
    /\ \A i \in 1..Len(entities) : NonEmptyHex(entities[i])
    /\ extra_state_attributes.total_planes = Len(SensorRaw)
    /\ native_value =
          Cardinality({i \in 1..Len(SensorRaw) :
                          Get(SensorRaw[i], "alt_baro") # JStr(Ground)})
    /\ phase[Geo] = "ready" =>
          LET carried == { h \in HexesIn(Snapshot(Geo)) : NonEmptyHex(h) } IN
          /\ AvailableMarkers \subseteq carried
          /\ (\A h \in carried : h.tag \notin {"list", "obj"}) =>
                AvailableMarkers = carried

\* both coordinators hold the same one-record snapshot, an airborne record
\* with an empty hex: it is counted twice over by the sensor and has no marker
C10_Witness ==
    /\ phase[Sen] = "ready" /\ phase[Geo] = "ready"
    /\ data[Sen] = data[Geo]
    /\ Len(Snapshot(Sen)) = 1
    /\ ~NonEmptyHex(HexAt(Snapshot(Sen), 1))
    /\ native_value = 1
    /\ extra_state_attributes.total_planes = 1
    /\ Cardinality(AvailableMarkers) < extra_state_attributes.total_planes

====
